---- MODULE Spec2Model ----
(***************************************************************************)
(* The game session engine of src/server.js: the room registry, the       *)
(* roster, the turn state machine, the move engine and the broadcasts,    *)
(* one action per WebSocket handler.                                       *)
(*                                                                         *)
(* Token indices and turnIndex are 0-based as in the source; the roster   *)
(* is a TLA+ sequence, so players[turnIndex] of the source is             *)
(* room.players[room.turnIndex + 1] here.                                  *)
(***************************************************************************)
EXTENDS Integers, Sequences, FiniteSets, TLC

VARIABLES
    rooms,      \* the registry `rooms` (a Map): room id -> room object
    conns,      \* per connection: socket status ("open": readyState 1 and sends succeed;
                \* "broken": readyState not 1, or send throws, the close event still
                \* to come; "closed": the close handler has run) and the closure's
                \* currentRoom / currentPlayer
    nextId,     \* the next fresh player id (makeId)
    sent,       \* the events the most recent handler sent, in order
    lastReq,    \* the request the most recent handler was given
    budget,     \* how many more accepted rolls and joins the model explores
    sixRun      \* history, per room id. 0..2: how many 6s in a row the player holding
                \* the turn has rolled since it got the turn (0 after every pass of
                \* the turn, whatever room.consecutiveSixes says). 3: the last accepted
                \* roll was the roller's own third 6 in a row, and no move has
                \* followed it; the turn has passed and the holder's run is 0

vars == <<rooms, conns, nextId, sent, lastReq, budget, sixRun>>

(***************************** bounds **************************************)
\* connections the server accepts, players it ever creates, rolls it accepts
MaxConns == 2
MaxPlayers == 3
MaxRolls == 1

RoomIds == {"A"}

(************************* program constants *******************************)
SAFE_INDICES == {0, 8, 13, 21, 26, 34, 39, 47}
COLOR_START == [red |-> 0, green |-> 13, yellow |-> 26, blue |-> 39]
colorOffset == [red |-> 0, green |-> 10, yellow |-> 20, blue |-> 30]
ColorOrder == <<"red", "green", "yellow", "blue">>
Tokens == 0..3
HomePositions == [i \in Tokens |-> -1]

\* The number NaN: what arithmetic on COLOR_START[color] gives for a color
\* that is no key of COLOR_START. NaN === NaN is false, and no array includes it.
NaN == -99
\* null: the closure's currentRoom / currentPlayer before the first join
NoRoom == "null"
NoPlayer == 0
\* the colors a join message may ask for: omitted (falsy), a board color
\* (free at first, taken once a player has it), and a string that is no board color
RequestColors == {"", "red", "purple"}
\* chosenColor when Array.find finds no free color
Undefined == "undefined"

(***************************** registry ************************************)
createRoom ==
    [players |-> <<>>, turnIndex |-> 0, currentRoll |-> 0,
     consecutiveSixes |-> 0, gameStarted |-> FALSE]

getRoom(rs, roomId) ==
    IF roomId \in DOMAIN rs THEN rs ELSE rs @@ (roomId :> createRoom)

(***************************** broadcast ***********************************)
\* Delivery given up at the first recipient that cannot be sent to
Recipients_abort(room, cs) ==
    LET bad == {i \in 1..Len(room.players) : cs[room.players[i].ws].status # "open"}
        n == IF bad = {} THEN Len(room.players)
             ELSE (CHOOSE i \in bad : \A j \in bad : i <= j) - 1
    IN  [i \in 1..n |-> room.players[i].ws]

\* The sockets a broadcast reaches, in roster order: those with readyState 1.
\* A failing send is caught per recipient and changes nothing else.
Recipients(room, cs) ==
    LET open == SelectSeq(room.players, LAMBDA p : cs[p.ws].status = "open")
    IN  [i \in 1..Len(open) |-> open[i].ws]

broadcast(room, cs, data) == [to |-> Recipients(room, cs), data |-> data]

\* ws.send(...) to the requesting socket only
SendTo(c, data) == [to |-> <<c>>, data |-> data]

RosterView(room) ==
    [i \in 1..Len(room.players) |->
        [id |-> room.players[i].id, color |-> room.players[i].color,
         ready |-> room.players[i].ready]]

StateView(room) ==
    [i \in 1..Len(room.players) |->
        [id |-> room.players[i].id, positions |-> room.players[i].positions]]

(*************************** board geometry ********************************)
computeGlobalIndex(color, pos) ==
    IF pos < 0 THEN -1
    ELSE IF pos <= 51
         THEN IF color \in DOMAIN COLOR_START
              THEN (COLOR_START[color] + pos) % 52
              ELSE NaN
         ELSE IF color \in DOMAIN colorOffset
              THEN 100 + colorOffset[color] + (pos - 52)
              ELSE NaN

\* oppGlobal === targetGlobal
StrictEq(a, b) == a # NaN /\ b # NaN /\ a = b

(****************************** move engine ********************************)
\* The final-path test left out
TokenMovable_overshoot(pos, roll) ==
    IF pos = -1
    THEN roll = 6
    ELSE IF pos < 52
         THEN IF pos + roll <= 51 THEN TRUE ELSE (pos + roll) - 51 <= 6
         ELSE TRUE

\* The final-path test written newPos < 57
TokenMovable_strict(pos, roll) ==
    IF pos = -1
    THEN roll = 6
    ELSE IF pos < 52
         THEN IF pos + roll <= 51 THEN TRUE ELSE (pos + roll) - 51 <= 6
         ELSE pos + roll < 57

\* Whether the loop body of computeMovableTokens pushes a token at pos
TokenMovable(pos, roll) ==
    IF pos = -1
    THEN roll = 6
    ELSE IF pos < 52
         THEN IF pos + roll <= 51 THEN TRUE ELSE (pos + roll) - 51 <= 6
         ELSE pos + roll <= 57

computeMovableTokens(player, roll) ==
    {i \in Tokens : TokenMovable(player.positions[i], roll)}

finishedCount(player) == Cardinality({i \in Tokens : player.positions[i] = 57})

\* The while loop of nextTurn: the first unfinished player from idx on, at
\* most Len(players) tries; startIndex when every player has finished.
RECURSIVE nextTurnLoop(_, _, _, _)
nextTurnLoop(players, startIndex, idx, iterations) ==
    IF iterations < Len(players)
    THEN IF finishedCount(players[idx + 1]) < 4
         THEN idx
         ELSE nextTurnLoop(players, startIndex, (idx + 1) % Len(players), iterations + 1)
    ELSE startIndex

\* room.turnIndex after nextTurn(room)
nextTurn(room) ==
    IF Len(room.players) = 0
    THEN room.turnIndex
    ELSE nextTurnLoop(room.players, room.turnIndex,
                      (room.turnIndex + 1) % Len(room.players), 0)

\* The final path entered one cell too far
MoveTarget_offByOne(pos, roll) ==
    IF pos = -1 THEN 0
    ELSE IF pos < 52 /\ pos + roll > 51
         THEN 52 + ((pos + roll) - 51)
         ELSE pos + roll

\* newPos of performMove
MoveTarget(pos, roll) ==
    IF pos = -1 THEN 0
    ELSE IF pos < 52 /\ pos + roll > 51
         THEN 51 + ((pos + roll) - 51)
         ELSE pos + roll

\* The main-track test on the opponent written oppPos < 51
Captures_short(moverColor, newPos, oppColor, oppPos) ==
    /\ newPos <= 51
    /\ oppPos >= 0 /\ oppPos < 51
    /\ StrictEq(computeGlobalIndex(oppColor, oppPos), computeGlobalIndex(moverColor, newPos))
    /\ computeGlobalIndex(moverColor, newPos) \notin SAFE_INDICES

\* The safe-square test left out
Captures_unsafe(moverColor, newPos, oppColor, oppPos) ==
    /\ newPos <= 51
    /\ oppPos >= 0 /\ oppPos <= 51
    /\ StrictEq(computeGlobalIndex(oppColor, oppPos), computeGlobalIndex(moverColor, newPos))

\* The players' own offsets compared instead of the global indices
Captures_relative(moverColor, newPos, oppColor, oppPos) ==
    /\ newPos <= 51
    /\ oppPos >= 0 /\ oppPos <= 51
    /\ StrictEq(oppPos, newPos)
    /\ computeGlobalIndex(moverColor, newPos) \notin SAFE_INDICES

\* Whether performMove sends the opponent token at oppPos home
Captures(moverColor, newPos, oppColor, oppPos) ==
    /\ newPos <= 51
    /\ oppPos >= 0 /\ oppPos <= 51
    /\ StrictEq(computeGlobalIndex(oppColor, oppPos), computeGlobalIndex(moverColor, newPos))
    /\ computeGlobalIndex(moverColor, newPos) \notin SAFE_INDICES

\* performMove: the roster after the move, and {captured, finishedNow}
performMove(room, playerId, tokenIndex, roll) ==
    LET me == CHOOSE i \in 1..Len(room.players) : room.players[i].id = playerId
        player == room.players[me]
        newPos == MoveTarget(player.positions[tokenIndex], roll)
        hit(i, k) == /\ room.players[i].id # playerId
                     /\ Captures(player.color, newPos,
                                 room.players[i].color, room.players[i].positions[k])
        after == [i \in 1..Len(room.players) |->
                    IF i = me
                    THEN [player EXCEPT !.positions[tokenIndex] = newPos]
                    ELSE [room.players[i] EXCEPT !.positions =
                            [k \in Tokens |-> IF hit(i, k) THEN -1 ELSE @[k]]]]
    IN  [players |-> after,
         captured |-> \E i \in 1..Len(room.players) : \E k \in Tokens : hit(i, k),
         finishedNow |-> newPos = 57]

(****************************** handlers ***********************************)
\* The turn check left out
isCurrentTurn_missing(room, playerId) == TRUE

\* currentTurnPlayer.id === currentPlayer.id
isCurrentTurn(room, playerId) == room.players[room.turnIndex + 1].id = playerId

\* The adjustment after a departure left out
departTurnIndex_kept(turnIndex, n) == turnIndex

\* turnIndex after a departure leaves n players
departTurnIndex(turnIndex, n) == IF turnIndex >= n THEN 0 ELSE turnIndex

Joined(c) == conns[c].currentRoom # NoRoom /\ conns[c].currentPlayer # NoPlayer

\* A request the handler returns from without touching anything
Dropped(req) ==
    /\ lastReq' = req
    /\ sent' = <<>>
    /\ UNCHANGED <<rooms, conns, nextId, budget, sixRun>>

\* chosenColor of the join handler
ChooseColor(room, color) ==
    LET takenColors == {room.players[i].color : i \in 1..Len(room.players)}
        free == {k \in 1..4 : ColorOrder[k] \notin takenColors}
    IN  IF color = "" \/ color \in takenColors
        THEN IF free = {} THEN Undefined
             ELSE ColorOrder[CHOOSE k \in free : \A j \in free : k <= j]
        ELSE color

Join(c, roomId, color) ==
    LET req == [type |-> "join", conn |-> c]
        rs == getRoom(rooms, roomId)
        room == rs[roomId]
    IN
    /\ conns[c].status = "open"
    /\ IF room.gameStarted
       THEN /\ rooms' = rs
            /\ sent' = <<SendTo(c, [type |-> "error", message |-> "Game already started for this room"])>>
            /\ lastReq' = req
            /\ UNCHANGED <<conns, nextId, budget, sixRun>>
       ELSE /\ budget.joins > 0
            /\ LET player == [id |-> nextId, color |-> ChooseColor(room, color), ws |-> c,
                              ready |-> FALSE, positions |-> HomePositions]
                   room2 == [room EXCEPT !.players = Append(@, player)]
               IN  /\ rooms' = [rs EXCEPT ![roomId] = room2]
                   /\ conns' = [conns EXCEPT ![c].currentRoom = roomId,
                                             ![c].currentPlayer = nextId]
                   /\ nextId' = nextId + 1
                   /\ sent' = <<SendTo(c, [type |-> "joined", playerId |-> nextId,
                                           color |-> player.color, players |-> RosterView(room2)]),
                                broadcast(room2, conns, [type |-> "player_list",
                                                         players |-> RosterView(room2)])>>
                   /\ lastReq' = req
                   /\ budget' = [budget EXCEPT !.joins = @ - 1]
                   /\ UNCHANGED sixRun

SetReady(players, playerId) ==
    [i \in 1..Len(players) |->
        IF players[i].id = playerId THEN [players[i] EXCEPT !.ready = TRUE] ELSE players[i]]

Ready(c) ==
    LET req == [type |-> "ready", conn |-> c] IN
    /\ conns[c].status = "open"
    /\ IF ~Joined(c)
       THEN Dropped(req)
       ELSE LET rid == conns[c].currentRoom
                room2 == [rooms[rid] EXCEPT !.players = SetReady(@, conns[c].currentPlayer)]
            IN  /\ rooms' = [rooms EXCEPT ![rid] = room2]
                /\ sent' = <<broadcast(room2, conns, [type |-> "player_list",
                                                      players |-> RosterView(room2)])>>
                /\ lastReq' = req
                /\ UNCHANGED <<conns, nextId, budget, sixRun>>

\* every() written some()
allReady_some(room) == \E i \in 1..Len(room.players) : room.players[i].ready

\* currentRoom.players.every((p) => p.ready)
allReady(room) == \A i \in 1..Len(room.players) : room.players[i].ready

Start(c) ==
    LET req == [type |-> "start", conn |-> c] IN
    /\ conns[c].status = "open"
    /\ IF ~Joined(c)
       THEN Dropped(req)
       ELSE LET rid == conns[c].currentRoom
                room == rooms[rid]
            IN  IF room.gameStarted
                THEN Dropped(req)
                ELSE IF Len(room.players) < 2
                THEN /\ sent' = <<SendTo(c, [type |-> "error", message |-> "Need at least 2 players to start"])>>
                     /\ lastReq' = req
                     /\ UNCHANGED <<rooms, conns, nextId, budget, sixRun>>
                ELSE IF ~allReady(room)
                THEN /\ sent' = <<SendTo(c, [type |-> "error", message |-> "All players must be ready"])>>
                     /\ lastReq' = req
                     /\ UNCHANGED <<rooms, conns, nextId, budget, sixRun>>
                ELSE LET room2 == [room EXCEPT !.gameStarted = TRUE, !.turnIndex = 0,
                                               !.currentRoll = 0, !.consecutiveSixes = 0]
                     IN  /\ rooms' = [rooms EXCEPT ![rid] = room2]
                         /\ sent' = <<broadcast(room2, conns,
                                        [type |-> "game_started",
                                         turnPlayerId |-> room2.players[1].id,
                                         state |-> StateView(room2)])>>
                         /\ lastReq' = req
                         /\ sixRun' = [sixRun EXCEPT ![rid] = 0]
                         /\ UNCHANGED <<conns, nextId, budget>>

TurnEvent(room, cs) ==
    broadcast(room, cs, [type |-> "turn", playerId |-> room.players[room.turnIndex + 1].id])

\* The room after an accepted roll of `die`, and the events sent
RollRoom(room, playerId, die) ==
    LET me == CHOOSE i \in 1..Len(room.players) : room.players[i].id = playerId
        sixes == IF die = 6 THEN room.consecutiveSixes + 1 ELSE 0
        moves == computeMovableTokens(room.players[me], die)
        mustPass == moves = {}
        skipTurn == die = 6 /\ sixes >= 3
        room1 == [room EXCEPT !.currentRoll = die,
                              !.consecutiveSixes = IF skipTurn THEN 0 ELSE sixes]
    IN  IF skipTurn \/ mustPass
        THEN [room1 EXCEPT !.turnIndex = nextTurn(room1)]
        ELSE room1

RollPasses(room, playerId, die) ==
    LET me == CHOOSE i \in 1..Len(room.players) : room.players[i].id = playerId
    IN  \/ computeMovableTokens(room.players[me], die) = {}
        \/ (die = 6 /\ room.consecutiveSixes + 1 >= 3)

\* The history after an accepted roll of the holder, whose run was `run`
\* (0 when the roll before was a third 6): the roller's own third 6 gives 3;
\* any other roll on which the handler passes the turn (no legal move, or
\* room.consecutiveSixes reaching 3 on a count left by another player)
\* gives 0, the run of the new holder; otherwise the run goes on
RunAfterRoll(run, die, passes) ==
    LET own == IF run >= 3 THEN 0 ELSE run
        n == IF die # 6 THEN 0 ELSE own + 1
    IN  IF n >= 3 THEN 3 ELSE IF passes THEN 0 ELSE n

Roll(c) ==
    LET req == [type |-> "roll", conn |-> c] IN
    /\ conns[c].status = "open"
    /\ IF ~Joined(c)
       THEN Dropped(req)
       ELSE LET rid == conns[c].currentRoom
                room == rooms[rid]
                pid == conns[c].currentPlayer
            IN  IF ~isCurrentTurn(room, pid)
                THEN Dropped(req)
                ELSE /\ budget.rolls > 0
                     /\ \E die \in 1..6 :
                          LET me == CHOOSE i \in 1..Len(room.players) : room.players[i].id = pid
                              room2 == RollRoom(room, pid, die)
                              result == broadcast(room2, conns,
                                          [type |-> "roll_result", playerId |-> pid, roll |-> die,
                                           moves |-> computeMovableTokens(room.players[me], die)])
                          IN  /\ rooms' = [rooms EXCEPT ![rid] = room2]
                              /\ sent' = IF RollPasses(room, pid, die)
                                         THEN <<result, TurnEvent(room2, conns)>>
                                         ELSE <<result>>
                              /\ lastReq' = req
                              /\ budget' = [budget EXCEPT !.rolls = @ - 1]
                              /\ sixRun' = [sixRun EXCEPT ![rid] =
                                                RunAfterRoll(@, die, RollPasses(room, pid, die))]
                              /\ UNCHANGED <<conns, nextId>>

\* extraTurn of the move handler
extraTurn(room, roll, result) ==
    \/ (roll = 6 /\ room.consecutiveSixes > 0)
    \/ result.captured
    \/ result.finishedNow

\* The room after an accepted move of tokenIndex
MoveRoom(room, playerId, tokenIndex) ==
    LET roll == room.currentRoll
        result == performMove(room, playerId, tokenIndex, roll)
        room1 == [room EXCEPT !.players = result.players]
        room2 == IF extraTurn(room, roll, result)
                 THEN room1
                 ELSE [room1 EXCEPT !.consecutiveSixes = 0,
                                    !.turnIndex = nextTurn([room1 EXCEPT !.consecutiveSixes = 0])]
    IN  [room2 EXCEPT !.currentRoll = 0]

TokenInputs == 0..4

Move(c, tokenIndex) ==
    LET req == [type |-> "move", conn |-> c] IN
    /\ conns[c].status = "open"
    /\ IF ~Joined(c)
       THEN Dropped(req)
       ELSE LET rid == conns[c].currentRoom
                room == rooms[rid]
                pid == conns[c].currentPlayer
                me == CHOOSE i \in 1..Len(room.players) : room.players[i].id = pid
            IN  IF ~isCurrentTurn(room, pid)
                THEN Dropped(req)
                ELSE IF tokenIndex \notin computeMovableTokens(room.players[me], room.currentRoll)
                THEN Dropped(req)
                ELSE LET result == performMove(room, pid, tokenIndex, room.currentRoll)
                         room2 == MoveRoom(room, pid, tokenIndex)
                         update == broadcast(room2, conns,
                                     [type |-> "state_update", playerId |-> pid,
                                      positions |-> result.players[me].positions,
                                      move |-> [tokenIndex |-> tokenIndex, roll |-> room.currentRoll],
                                      captured |-> result.captured,
                                      finished |-> result.finishedNow])
                         done == IF finishedCount(result.players[me]) = 4
                                 THEN <<broadcast(room2, conns, [type |-> "player_finished",
                                                                 playerId |-> pid])>>
                                 ELSE <<>>
                     IN  /\ rooms' = [rooms EXCEPT ![rid] = room2]
                         /\ sent' = <<update>> \o done \o <<TurnEvent(room2, conns)>>
                         /\ lastReq' = req
                         /\ sixRun' = [sixRun EXCEPT ![rid] =
                                IF extraTurn(room, room.currentRoll, result) /\ @ < 3
                                THEN @ ELSE 0]
                         /\ UNCHANGED <<conns, nextId, budget>>

\* ws.on('close')
Close(c) ==
    LET req == [type |-> "close", conn |-> c]
        cs == [conns EXCEPT ![c].status = "closed"]
    IN
    /\ conns[c].status # "closed"
    /\ conns' = cs
    /\ lastReq' = req
    /\ UNCHANGED <<nextId, budget>>
    /\ IF ~Joined(c)
       THEN rooms' = rooms /\ sent' = <<>> /\ sixRun' = sixRun
       ELSE LET rid == conns[c].currentRoom
                room == rooms[rid]
                left == SelectSeq(room.players, LAMBDA p : p.id # conns[c].currentPlayer)
                room2 == [room EXCEPT !.players = left,
                                      !.turnIndex = departTurnIndex(@, Len(left))]
            IN  /\ sent' = <<broadcast(room2, cs, [type |-> "player_list",
                                                   players |-> RosterView(room2)])>>
                /\ rooms' = IF Len(left) = 0
                            THEN [r \in DOMAIN rooms \ {rid} |-> rooms[r]]
                            ELSE [rooms EXCEPT ![rid] = room2]
                /\ sixRun' = [sixRun EXCEPT ![rid] =
                        IF room2.turnIndex < Len(left)
                           /\ room2.players[room2.turnIndex + 1].id = room.players[room.turnIndex + 1].id
                        THEN @ ELSE 0]

(**************************** specification ********************************)
NoConn == [status |-> "open", currentRoom |-> NoRoom, currentPlayer |-> NoPlayer]

Init ==
    /\ rooms = << >>
    /\ conns = [c \in 1..MaxConns |-> NoConn]
    /\ nextId = 1
    /\ sent = <<>>
    /\ lastReq = [type |-> "none"]
    /\ budget = [rolls |-> MaxRolls, joins |-> MaxPlayers]
    /\ sixRun = [r \in RoomIds |-> 0]

\* The requester, on an open connection, is players[turnIndex] of its room
HoldsTurn(c) ==
    /\ conns[c].status = "open"
    /\ Joined(c)
    /\ LET room == rooms[conns[c].currentRoom]
       IN  isCurrentTurn(room, conns[c].currentPlayer)

\* The inputs worth telling apart: a join to a started room is refused
\* whatever color it asks for, a move of a player without the turn is
\* dropped whatever token it names
JoinInputs(roomId) ==
    IF roomId \in DOMAIN rooms /\ rooms[roomId].gameStarted THEN {""} ELSE RequestColors
MoveInputs(c) == IF HoldsTurn(c) THEN TokenInputs ELSE {0}

Next ==
    \/ \E c \in DOMAIN conns, roomId \in RoomIds : \E color \in JoinInputs(roomId) :
            Join(c, roomId, color)
    \/ \E c \in DOMAIN conns : Ready(c)
    \/ \E c \in DOMAIN conns : Start(c)
    \/ \E c \in DOMAIN conns : Roll(c)
    \/ \E c \in DOMAIN conns : \E tokenIndex \in MoveInputs(c) : Move(c, tokenIndex)
    \/ \E c \in DOMAIN conns : Close(c)

Spec == Init /\ [][Next]_vars

(************************ games in progress ********************************)
\* positions: [a, b, c, d]
Pos(a, b, c, d) == (0 :> a) @@ (1 :> b) @@ (2 :> c) @@ (3 :> d)

\* The player at seat i of a started game: joined i-th on connection i, took
\* the i-th color, and is ready
Seat(i, color, positions) ==
    [id |-> i, color |-> color, ws |-> i, ready |-> TRUE, positions |-> positions]

\* No two tokens of different players on one main-track cell that is not
\* safe: a token that lands there sends the others home
NoSharedCell(players) ==
    \A i, j \in 1..Len(players) : \A k, l \in Tokens :
        (i # j /\ players[i].positions[k] \in 0..51 /\ players[j].positions[l] \in 0..51
           /\ computeGlobalIndex(players[i].color, players[i].positions[k])
                = computeGlobalIndex(players[j].color, players[j].positions[l]))
        => computeGlobalIndex(players[i].color, players[i].positions[k]) \in SAFE_INDICES

\* Started rooms between two turns (no roll outstanding), each reachable by
\* play from start: positions per seat, the seat to roll, the six-streak.
GameScenarios ==
    { \* right after start
      [pos |-> <<Pos(-1, -1, -1, -1), Pos(-1, -1, -1, -1)>>, turn |-> 0, sixes |-> 0],
      \* seat 0 rolled 6 twice and brought two tokens out
      [pos |-> <<Pos(0, 0, -1, -1), Pos(-1, -1, -1, -1)>>, turn |-> 0, sixes |-> 2],
      \* red at global 14, two green tokens at global 16 and one at global 18
      [pos |-> <<Pos(14, -1, -1, -1), Pos(3, 3, 5, -1)>>, turn |-> 0, sixes |-> 0],
      \* red next to the safe cell 8 that green stands on; red at 50 before its lane
      [pos |-> <<Pos(7, 50, -1, -1), Pos(47, -1, -1, -1)>>, turn |-> 0, sixes |-> 0],
      \* green to roll, red behind it
      [pos |-> <<Pos(12, -1, -1, -1), Pos(55, 57, 57, -1)>>, turn |-> 1, sixes |-> 0],
      \* three players: red about to finish its last token, green has finished
      [pos |-> <<Pos(55, 57, 57, 57), Pos(57, 57, 57, 57), Pos(20, -1, -1, -1)>>,
       turn |-> 0, sixes |-> 0],
      \* three players: green has finished, yellow to roll
      [pos |-> <<Pos(30, 2, -1, 57), Pos(57, 57, 57, 57), Pos(51, 56, -1, -1)>>,
       turn |-> 2, sixes |-> 0] }

GameRolls == 1

InitGame ==
    \E sc \in GameScenarios :
        /\ rooms = ("A" :> [players |-> [i \in 1..Len(sc.pos) |-> Seat(i, ColorOrder[i], sc.pos[i])],
                            turnIndex |-> sc.turn, currentRoll |-> 0,
                            consecutiveSixes |-> sc.sixes, gameStarted |-> TRUE])
        /\ conns = [c \in 1..Len(sc.pos) |->
                        [status |-> "open", currentRoom |-> "A", currentPlayer |-> c]]
        /\ nextId = Len(sc.pos) + 1
        /\ sent = <<>>
        /\ lastReq = [type |-> "none"]
        /\ budget = [rolls |-> GameRolls, joins |-> 0]
        /\ sixRun = [r \in RoomIds |-> sc.sixes]

SpecGame == InitGame /\ [][Next]_vars

(********************** departures during a game ***************************)
\* Games in progress in which players roll, move and disconnect
DepartRolls == 2

InitDepart ==
    \E sc \in GameScenarios :
        /\ rooms = ("A" :> [players |-> [i \in 1..Len(sc.pos) |-> Seat(i, ColorOrder[i], sc.pos[i])],
                            turnIndex |-> sc.turn, currentRoll |-> 0,
                            consecutiveSixes |-> sc.sixes, gameStarted |-> TRUE])
        /\ conns = [c \in 1..Len(sc.pos) |->
                        [status |-> "open", currentRoom |-> "A", currentPlayer |-> c]]
        /\ nextId = Len(sc.pos) + 1
        /\ sent = <<>>
        /\ lastReq = [type |-> "none"]
        /\ budget = [rolls |-> DepartRolls, joins |-> 0]
        /\ sixRun = [r \in RoomIds |-> sc.sixes]

NextDepart ==
    \/ \E c \in DOMAIN conns : Roll(c)
    \/ \E c \in DOMAIN conns : \E tokenIndex \in MoveInputs(c) : Move(c, tokenIndex)
    \/ \E c \in DOMAIN conns : Close(c)

SpecDepart == InitDepart /\ [][NextDepart]_vars

(************************ sockets that fail ********************************)
\* A socket stops taking messages (its readyState leaves 1, or its send
\* throws) before its close event is handled
Break(c) ==
    /\ conns[c].status = "open"
    /\ conns' = [conns EXCEPT ![c].status = "broken"]
    /\ lastReq' = [type |-> "break", conn |-> c]
    /\ sent' = <<>>
    /\ UNCHANGED <<rooms, nextId, budget, sixRun>>

NextSend ==
    \/ \E c \in DOMAIN conns : Break(c)
    \/ \E c \in DOMAIN conns : Roll(c)
    \/ \E c \in DOMAIN conns : \E tokenIndex \in MoveInputs(c) : Move(c, tokenIndex)
    \/ \E c \in DOMAIN conns : Close(c)

SpecSend == InitGame /\ [][NextSend]_vars

(***************************** a full room **********************************)
\* Four connections joined room A without asking for a color; a fifth is
\* connected and has not joined. One more join is explored.
InitLobby ==
    /\ rooms = ("A" :> [createRoom EXCEPT !.players =
                    [i \in 1..4 |-> [Seat(i, ColorOrder[i], HomePositions) EXCEPT !.ready = FALSE]]])
    /\ conns = [c \in 1..5 |-> IF c <= 4
                                THEN [status |-> "open", currentRoom |-> "A", currentPlayer |-> c]
                                ELSE NoConn]
    /\ nextId = 5
    /\ sent = <<>>
    /\ lastReq = [type |-> "none"]
    /\ budget = [rolls |-> 0, joins |-> 1]
    /\ sixRun = [r \in RoomIds |-> 0]

SpecLobby == InitLobby /\ [][Next]_vars

(********************** the move engine on its inputs **********************)
BoardColors == {"red", "green", "yellow", "blue"}

\* The position at which a token of `color` stands on global cell g
PosAt(color, g) == (g + 52 - COLOR_START[color]) % 52

\* A three-player game, mover at seat 0 with its first token at p and the
\* turn: the first opponent has two tokens k cells ahead of p (of the
\* mover's entry cell when p is home), one in its lane and one at home; the
\* second opponent shares that cell when it is safe.
EngineRoom(mc, oc, p, k, wide) ==
    LET rc == ColorOrder[CHOOSE n \in 1..4 : ColorOrder[n] \notin {mc, oc}
                          /\ \A m \in 1..4 : ColorOrder[m] \notin {mc, oc} => n <= m]
        g == (COLOR_START[mc] + (IF p < 0 THEN 0 ELSE p) + k) % 52
        own == IF p >= 0 /\ p + 3 <= 51 THEN p + 3 ELSE -1
        mover == IF wide THEN Pos(p, own, 53, 57) ELSE Pos(p, -1, -1, -1)
        first == IF wide THEN Pos(PosAt(oc, g), PosAt(oc, g), 54, -1) ELSE HomePositions
        second == IF wide /\ g \in SAFE_INDICES
                  THEN Pos(PosAt(rc, g), -1, 57, 55) ELSE HomePositions
    IN  [players |-> <<Seat(1, mc, mover), Seat(2, oc, first), Seat(3, rc, second)>>,
         turnIndex |-> 0, currentRoll |-> 0, consecutiveSixes |-> 0, gameStarted |-> TRUE]

InitMove ==
    \E mc \in BoardColors, oc \in BoardColors, p \in -1..57, k \in 0..6, wide \in BOOLEAN :
        /\ mc # oc
        /\ wide => p <= 51
        /\ ~wide => (k = 0 /\ oc = ColorOrder[IF mc = "red" THEN 2 ELSE 1])
        /\ NoSharedCell(EngineRoom(mc, oc, p, k, wide).players)
        /\ rooms = ("A" :> EngineRoom(mc, oc, p, k, wide))
        /\ conns = [c \in 1..3 |-> [status |-> "open", currentRoom |-> "A", currentPlayer |-> c]]
        /\ nextId = 4
        /\ sent = <<>>
        /\ lastReq = [type |-> "none"]
        /\ budget = [rolls |-> 1, joins |-> 0]
        /\ sixRun = [r \in RoomIds |-> 0]

\* One roll, then one move request
EngineRoll == lastReq.type = "none" /\ \E c \in DOMAIN conns : HoldsTurn(c) /\ Roll(c)
EngineMove ==
    /\ lastReq.type = "roll"
    /\ \E c \in DOMAIN conns, tokenIndex \in TokenInputs : HoldsTurn(c) /\ Move(c, tokenIndex)

NextEngine == EngineRoll \/ EngineMove

SpecMove == InitMove /\ [][NextEngine]_vars

(******************************* claims ************************************)
\* The room of connection c, and its player's seat (1-based) there
RoomOf(c) == rooms[conns[c].currentRoom]
SeatOf(c) == CHOOSE i \in 1..Len(RoomOf(c).players) : RoomOf(c).players[i].id = conns[c].currentPlayer
\* The player whose turn it is
TurnPlayer(room) == room.players[room.turnIndex + 1]

\* C1: in every reachable state of every room with a non-empty roster,
\* 0 <= turnIndex < len(players), whatever joins, readies, starts, rolls,
\* moves and disconnects led there.
C1_TurnIndexInBounds ==
    \A r \in DOMAIN rooms :
        Len(rooms[r].players) > 0 =>
            (0 <= rooms[r].turnIndex /\ rooms[r].turnIndex < Len(rooms[r].players))

\* A roll passed the turn to the second of two players
C1_Witness ==
    \E r \in DOMAIN rooms :
        /\ lastReq.type = "roll"
        /\ Len(rooms[r].players) = 2
        /\ rooms[r].turnIndex = 1

\* C2: a roll or move request of a joined player who is not
\* players[turnIndex] changes nothing of any room (roster, positions,
\* turnIndex, currentRoll, consecutiveSixes, started) and sends no event.
C2_OutOfTurnRequestIgnored ==
    [][ \A c \in DOMAIN conns :
          ( /\ lastReq'.type \in {"roll", "move"}
            /\ lastReq'.conn = c
            /\ conns[c].status = "open"
            /\ Joined(c)
            /\ TurnPlayer(RoomOf(c)).id # conns[c].currentPlayer )
          => (rooms' = rooms /\ conns' = conns /\ sent' = <<>>) ]_vars

\* In a started game a player without the turn asked to roll or move, and
\* nothing was sent
C2_Witness ==
    /\ lastReq.type \in {"roll", "move"}
    /\ sent = <<>>
    /\ conns[lastReq.conn].status = "open"
    /\ Joined(lastReq.conn)
    /\ RoomOf(lastReq.conn).gameStarted
    /\ TurnPlayer(RoomOf(lastReq.conn)).id # conns[lastReq.conn].currentPlayer

\* The seat the turn passes to: the first player after turnIndex, in cyclic
\* seating order, with a token not at 57; turnIndex itself when there is none
NextUnfinishedSeat(room) ==
    LET n == Len(room.players)
        ahead == {k \in 1..n :
                    \E t \in Tokens : room.players[((room.turnIndex + k) % n) + 1].positions[t] # 57}
    IN  IF ahead = {} THEN room.turnIndex
        ELSE (room.turnIndex + (CHOOSE k \in ahead : \A j \in ahead : k <= j)) % n

\* C3: a move request is executed only when the requester is
\* players[turnIndex], a roll is outstanding (currentRoll is a die value,
\* not none) and the token index is among the legal moves for that roll;
\* a request that is not executed changes no state and sends nothing.
C3_MoveNeedsTurnRollAndLegalToken ==
    [][ \A c \in DOMAIN conns :
          ( /\ lastReq'.type = "move"
            /\ lastReq'.conn = c
            /\ conns[c].status = "open"
            /\ Joined(c) )
          => IF sent' # <<>>
             THEN /\ TurnPlayer(RoomOf(c)).id = conns[c].currentPlayer
                  /\ RoomOf(c).currentRoll \in 1..6
                  /\ sent'[1].data.move.tokenIndex
                        \in computeMovableTokens(RoomOf(c).players[SeatOf(c)], RoomOf(c).currentRoll)
             ELSE rooms' = rooms /\ conns' = conns ]_vars

\* The last request was c's roll, and it was c's third 6 in a row
Busted(c) ==
    /\ lastReq = [type |-> "roll", conn |-> c]
    /\ sent # <<>>
    /\ sixRun[conns[c].currentRoom] = 3

\* C4: the roll that is a player's third consecutive 6 passes the turn
\* itself (turnIndex goes to the next player with an unfinished token) and
\* resets consecutiveSixes to 0, legal moves or not; the roller's move
\* request for that roll is then not executed.
C4_ThirdSixForfeitsTheRoll ==
    [][ \A c \in DOMAIN conns :
          /\ ( /\ lastReq'.type = "roll"
               /\ lastReq'.conn = c
               /\ sent' # <<>>
               /\ sent'[1].data.roll = 6
               /\ sixRun[conns[c].currentRoom] = 2 )
             => ( /\ rooms'[conns[c].currentRoom].turnIndex = NextUnfinishedSeat(RoomOf(c))
                  /\ rooms'[conns[c].currentRoom].consecutiveSixes = 0 )
          /\ ( /\ Busted(c)
               /\ lastReq'.type = "move"
               /\ lastReq'.conn = c )
             => (rooms' = rooms /\ sent' = <<>>) ]_vars

\* C5: after an executed move the turn stays with the mover if the roll
\* was a 6, or the move captured, or the moved token reached 57; otherwise
\* turnIndex goes to the next player with an unfinished token and
\* consecutiveSixes is 0.
C5_TurnAfterMove ==
    [][ \A c \in DOMAIN conns :
          ( /\ lastReq'.type = "move"
            /\ lastReq'.conn = c
            /\ sent' # <<>> )
          => LET before == RoomOf(c)
                 after == rooms'[conns[c].currentRoom]
                 ev == sent'[1].data
             IN  IF ev.move.roll = 6 \/ ev.captured \/ ev.finished
                 THEN after.turnIndex = before.turnIndex
                 ELSE /\ after.turnIndex
                          = NextUnfinishedSeat([before EXCEPT !.players = after.players])
                      /\ after.consecutiveSixes = 0 ]_vars

\* The board as the rules state it: each color's entry cell on the ring of
\* 52 cells, the global cell of a token on the main track, the safe cells
EntryCell(color) ==
    CASE color = "red" -> 0 [] color = "green" -> 13
      [] color = "yellow" -> 26 [] color = "blue" -> 39
GlobalCell(color, pos) == (EntryCell(color) + pos) % 52
SafeCells == {0, 8, 13, 21, 26, 34, 39, 47}

\* The seat (1-based) in `room` of the player with this id
SeatOfId(room, id) == CHOOSE i \in 1..Len(room.players) : room.players[i].id = id

\* The step is an executed move: what was moved, from where, to where
MoveExecuted == lastReq'.type = "move" /\ sent' # <<>>
MovedSeat == SeatOfId(rooms["A"], sent'[1].data.playerId)
MovedToken == sent'[1].data.move.tokenIndex
MovedFrom == rooms["A"].players[MovedSeat].positions[MovedToken]
MovedTo == rooms'["A"].players[MovedSeat].positions[MovedToken]
MoverColor == rooms["A"].players[MovedSeat].color

\* C6: a move that lands on a main-track cell whose global index is in
\* {0,8,13,21,26,34,39,47} sends no opponent token home and reports
\* captured = false, whatever the mover's color and whichever opponent
\* tokens stand on that cell.
C6_NoCaptureOnSafeCell ==
    [][ (MoveExecuted /\ MovedTo \in 0..51 /\ GlobalCell(MoverColor, MovedTo) \in SafeCells)
        => /\ sent'[1].data.captured = FALSE
           /\ \A i \in 1..Len(rooms["A"].players) :
                 i # MovedSeat => rooms'["A"].players[i].positions = rooms["A"].players[i].positions
      ]_vars

\* A move landed on a safe cell on which opponent tokens stand, and captured nothing
C6_Witness ==
    /\ lastReq.type = "move"
    /\ sent # <<>>
    /\ sent[1].data.captured = FALSE
    /\ LET room == rooms["A"]
           m == SeatOfId(room, sent[1].data.playerId)
           to == room.players[m].positions[sent[1].data.move.tokenIndex]
       IN  /\ to \in 0..51
           /\ GlobalCell(room.players[m].color, to) \in SafeCells
           /\ \E i \in 1..Len(room.players) : \E l \in Tokens :
                 /\ i # m
                 /\ room.players[i].positions[l] \in 0..51
                 /\ GlobalCell(room.players[i].color, room.players[i].positions[l])
                      = GlobalCell(room.players[m].color, to)

\* The rule of section 4.5 for one token
Allowed(pos, roll) ==
    \/ pos = -1 /\ roll = 6
    \/ pos \in 0..51 /\ (pos + roll <= 51 \/ pos + roll - 51 <= 6)
    \/ pos \in 52..57 /\ pos + roll <= 57

\* C7: for every roll in 1..6 and token positions in -1..57 the legal moves
\* a roll reports are exactly the tokens the rule allows: a home token only
\* on a 6, a main-track token when pos+roll <= 51 or pos+roll-51 <= 6, a
\* final-lane token when pos+roll <= 57; with all four tokens at home, all
\* four on a 6 and none on 1..5.
C7_LegalMovesFollowTheRule ==
    [][ (lastReq'.type = "roll" /\ sent' # <<>>)
        => LET ev == sent'[1].data
               positions == rooms["A"].players[SeatOfId(rooms["A"], ev.playerId)].positions
           IN  /\ ev.roll \in 1..6
               /\ \A i \in Tokens : positions[i] \in -1..57
               /\ ev.moves = {i \in Tokens : Allowed(positions[i], ev.roll)}
               /\ (\A i \in Tokens : positions[i] = -1)
                     => ev.moves = (IF ev.roll = 6 THEN {0, 1, 2, 3} ELSE {})
      ]_vars

\* A 6 was rolled with all four tokens at home, and all four are movable
C7_Witness ==
    /\ lastReq.type = "roll"
    /\ sent # <<>>
    /\ sent[1].data.roll = 6
    /\ sent[1].data.moves = {0, 1, 2, 3}
    /\ \A i \in Tokens :
          rooms["A"].players[SeatOfId(rooms["A"], sent[1].data.playerId)].positions[i] = -1

\* C8: an executed move of a roll in 1..6 puts the token at 0 when it was at
\* home and at pos + roll otherwise (also across the entry of the final
\* lane: 50 and a 4 give 54), leaves the mover's other three tokens where
\* they were, and reports finished exactly when the new position is 57.
C8_MoveArithmetic ==
    [][ MoveExecuted
        => /\ sent'[1].data.move.roll \in 1..6
           /\ MovedTo = (IF MovedFrom = -1 THEN 0 ELSE MovedFrom + sent'[1].data.move.roll)
           /\ \A l \in Tokens \ {MovedToken} :
                 rooms'["A"].players[MovedSeat].positions[l]
                    = rooms["A"].players[MovedSeat].positions[l]
           /\ sent'[1].data.positions = rooms'["A"].players[MovedSeat].positions
           /\ sent'[1].data.finished = (MovedTo = 57)
      ]_vars

\* The only token on the board went from 50 to 54 on a 4
C8_Witness ==
    /\ lastReq.type = "move"
    /\ sent # <<>>
    /\ sent[1].data.move = [tokenIndex |-> 0, roll |-> 4]
    /\ sent[1].data.positions = Pos(54, -1, -1, -1)
    /\ sent[1].data.finished = FALSE

\* The opponent token l of seat i stands on the cell the move lands on
OnLandingCell(i, l) ==
    /\ i # MovedSeat
    /\ MovedTo \in 0..51
    /\ rooms["A"].players[i].positions[l] \in 0..51
    /\ GlobalCell(rooms["A"].players[i].color, rooms["A"].players[i].positions[l])
         = GlobalCell(MoverColor, MovedTo)

\* C9: a move that lands on a main-track cell that is not safe sends home,
\* in that one move, every token of every other player that stands on the
\* main track at the same global index, and reports captured = true; no
\* other token changes (the mover's, opponents' tokens at home, in a final
\* lane or on other cells), and a move that lands in the final lane
\* captures nothing.
C9_CaptureAllOnLandingCell ==
    [][ (MoveExecuted /\ ~(MovedTo \in 0..51 /\ GlobalCell(MoverColor, MovedTo) \in SafeCells))
        => /\ \A i \in 1..Len(rooms["A"].players) : \A l \in Tokens :
                 i # MovedSeat =>
                    rooms'["A"].players[i].positions[l]
                      = (IF OnLandingCell(i, l) THEN -1 ELSE rooms["A"].players[i].positions[l])
           /\ \A l \in Tokens \ {MovedToken} :
                 rooms'["A"].players[MovedSeat].positions[l]
                    = rooms["A"].players[MovedSeat].positions[l]
           /\ sent'[1].data.captured
                 = (\E i \in 1..Len(rooms["A"].players) : \E l \in Tokens : OnLandingCell(i, l))
           /\ MovedTo > 51 => sent'[1].data.captured = FALSE
      ]_vars

\* One move sent both tokens of the opponent's stack home and left its token
\* in the final lane and its token at home alone
C9_Witness ==
    /\ lastReq.type = "move"
    /\ sent # <<>>
    /\ sent[1].data.captured = TRUE
    /\ sent[1].data.playerId = 1
    /\ rooms["A"].players[2].positions = Pos(-1, -1, 54, -1)

\* The colors held in a room
ColorsTaken(room) == {room.players[i].color : i \in 1..Len(room.players)}

\* C10: a join request, from a connection that has joined nothing yet, to a
\* room in which red, green, yellow and blue are all taken fails: the roster
\* stays as it was, the sender gets an error and no joined message, and so
\* the room holds no more than four players.
C10_JoinToFullRoomFails ==
    [][ \A r \in DOMAIN rooms :
          ( /\ lastReq'.type = "join"
            /\ conns[lastReq'.conn].currentRoom = NoRoom
            /\ {"red", "green", "yellow", "blue"} \subseteq ColorsTaken(rooms[r])
            /\ r \in DOMAIN rooms'
            /\ rooms'[r] # rooms[r] \/ conns'[lastReq'.conn].currentRoom = r )
          => /\ rooms'[r].players = rooms[r].players
             /\ Len(rooms'[r].players) <= 4
             /\ \A i \in 1..Len(sent') : sent'[i].data.type = "error"
      ]_vars

\* C11: once a room has started, a join request to it is answered with an
\* error to the sender alone and adds no player, and a ready request of one
\* of its players is rejected: either leaves the room as it was and sends
\* nothing to the room.
C11_StartedRoomRejectsJoinAndReady ==
    [][ \A r \in DOMAIN rooms :
          rooms[r].gameStarted =>
            /\ lastReq'.type = "join"
                 => /\ rooms' = rooms
                    /\ Len(sent') = 1
                    /\ sent'[1].to = <<lastReq'.conn>>
                    /\ sent'[1].data.type = "error"
            /\ (lastReq'.type = "ready" /\ conns[lastReq'.conn].currentRoom = r
                   /\ conns[lastReq'.conn].currentPlayer # NoPlayer)
                 => /\ rooms' = rooms
                    /\ \A i \in 1..Len(sent') :
                          sent'[i].to = <<lastReq'.conn>> /\ sent'[i].data.type = "error"
      ]_vars

\* C12: a start request to a room that has not started fails, with one error
\* to the sender and the room unchanged (not started), when the room has
\* fewer than 2 players or a player who is not ready; otherwise it sets
\* gameStarted, turnIndex 0, no roll, no six-streak, and broadcasts
\* game_started naming players[0]. So a room becomes started only by a
\* start request made when it had at least 2 players, all ready.
C12_StartPreconditions ==
    [][ /\ \A r \in DOMAIN rooms :
             (/\ lastReq'.type = "start"
              /\ conns[lastReq'.conn].currentRoom = r
              /\ conns[lastReq'.conn].currentPlayer # NoPlayer
              /\ ~rooms[r].gameStarted)
             => IF \/ Len(rooms[r].players) < 2
                   \/ \E i \in 1..Len(rooms[r].players) : ~rooms[r].players[i].ready
                THEN /\ rooms' = rooms
                     /\ Len(sent') = 1
                     /\ sent'[1].to = <<lastReq'.conn>>
                     /\ sent'[1].data.type = "error"
                ELSE /\ rooms' = [rooms EXCEPT ![r] =
                                    [rooms[r] EXCEPT !.gameStarted = TRUE, !.turnIndex = 0,
                                                     !.currentRoll = 0, !.consecutiveSixes = 0]]
                     /\ Len(sent') = 1
                     /\ sent'[1].data.type = "game_started"
                     /\ sent'[1].data.turnPlayerId = rooms[r].players[1].id
                     /\ \A i \in 1..Len(rooms[r].players) :
                          conns[rooms[r].players[i].ws].status = "open"
                            => \E j \in 1..Len(sent'[1].to) : sent'[1].to[j] = rooms[r].players[i].ws
        /\ \A r \in DOMAIN rooms' :
             (rooms'[r].gameStarted /\ (r \in DOMAIN rooms => ~rooms[r].gameStarted))
             => /\ r \in DOMAIN rooms
                /\ lastReq'.type = "start"
                /\ Len(rooms[r].players) >= 2
                /\ \A i \in 1..Len(rooms[r].players) : rooms[r].players[i].ready
      ]_vars

\* A start request has just started a room of two ready players
C12_Witness ==
    /\ lastReq.type = "start"
    /\ Len(sent) = 1
    /\ sent[1].data.type = "game_started"
    /\ "A" \in DOMAIN rooms
    /\ rooms["A"].gameStarted
    /\ Len(rooms["A"].players) = 2
    /\ sent[1].data.turnPlayerId = rooms["A"].players[1].id

\* Some player of the room has a token that is not at 57
SomeUnfinished(room) == \E i \in 1..Len(room.players) : finishedCount(room.players[i]) < 4

\* A connection that had joined room r has closed
SomeoneLeft(r) ==
    \E c \in DOMAIN conns : conns[c].status = "closed" /\ conns[c].currentRoom = r

\* The request just handled is the close of a connection of room r
JustLeft(r) ==
    /\ lastReq.type = "close"
    /\ conns[lastReq.conn].currentRoom = r

\* A connection that can still send requests is in room r
SomeoneConnected(r) ==
    \E c \in DOMAIN conns : conns[c].status = "open" /\ conns[c].currentRoom = r

\* The roll request of connection c is accepted and answered with c's result
RollAccepted(c) ==
    ENABLED (/\ Roll(c)
             /\ Len(sent') >= 1
             /\ sent'[1].data.type = "roll_result"
             /\ sent'[1].data.playerId = conns[c].currentPlayer)

\* The move of token t by connection c is accepted, consumes the roll and
\* announces the next turn
MoveCompletes(c, t) ==
    ENABLED (/\ Move(c, t)
             /\ Len(sent') >= 2
             /\ sent'[1].data.type = "state_update"
             /\ sent'[Len(sent')].data.type = "turn"
             /\ rooms'[conns[c].currentRoom].currentRoll = 0)

\* C13: in a started room in which a player with an unfinished token
\* remains and to which a connection is still joined, the game goes on
\* after a departure.  Right after a connection of the room has closed
\* (before rolling, with a roll outstanding, or without the turn; the room
\* was started then, a close never starts it), turnIndex is in bounds and
\* players[turnIndex] is the player of an open connection whose roll
\* request is accepted.  And whenever, in a room a connection has left,
\* the holder's roll has just left legal moves, the move of each of them
\* is accepted, consumes the roll and announces the next turn.
C13_GameGoesOnAfterDeparture ==
    \A r \in DOMAIN rooms :
      (rooms[r].gameStarted /\ SomeUnfinished(rooms[r]) /\ SomeoneConnected(r))
      => /\ JustLeft(r)
              => /\ rooms[r].turnIndex \in 0..(Len(rooms[r].players) - 1)
                 /\ \E c \in DOMAIN conns :
                      /\ conns[c].currentRoom = r
                      /\ HoldsTurn(c)
                      /\ budget.rolls > 0 => RollAccepted(c)
         /\ SomeoneLeft(r)
              => \A c \in DOMAIN conns :
                   (/\ conns[c].currentRoom = r
                    /\ HoldsTurn(c)
                    /\ lastReq = [type |-> "roll", conn |-> c]
                    /\ Len(sent) = 1)
                   => /\ sent[1].data.moves # {}
                      /\ \A t \in sent[1].data.moves : MoveCompletes(c, t)

\* C14: the first join that names an unknown room id creates the room, and
\* that room is fresh (nobody in it before the joiner, not started,
\* turnIndex 0, no roll outstanding); the disconnect that brings a room's
\* player count to zero removes it; and once every connection that joined a
\* room has closed, the room is no longer in the registry.
C14_RoomLifecycle ==
    [][ \A r \in RoomIds :
          /\ (r \notin DOMAIN rooms /\ r \in DOMAIN rooms')
               => /\ lastReq'.type = "join"
                  /\ Len(rooms'[r].players) = 1
                  /\ rooms'[r].players[1].ws = lastReq'.conn
                  /\ ~rooms'[r].gameStarted
                  /\ rooms'[r].turnIndex = 0
                  /\ rooms'[r].currentRoll = 0
          /\ (r \in DOMAIN rooms /\ r \notin DOMAIN rooms')
               => /\ lastReq'.type = "close"
                  /\ Len(rooms[r].players) = 1
                  /\ rooms[r].players[1].ws = lastReq'.conn
          /\ r \in DOMAIN rooms' => Len(rooms'[r].players) > 0
          /\ (\A c \in DOMAIN conns' : conns'[c].currentRoom = r => conns'[c].status = "closed")
               => r \notin DOMAIN rooms'
      ]_vars

\* The connections of the room's players that can be sent to
Reachable(room) ==
    {room.players[i].ws : i \in {j \in 1..Len(room.players) :
                                    conns[room.players[j].ws].status = "open"}}

\* The connections an event was delivered to
DeliveredTo(ev) == {ev.to[i] : i \in 1..Len(ev.to)}

\* C15: when a roll or a move is accepted while some player's socket cannot
\* be sent to, only that recipient is skipped: each event of the handler
\* reaches every other connected player of the room, the roll or the move
\* stays committed, and the handler goes on to pass the turn and to send
\* the events that follow (roll_result, then turn on a pass; state_update,
\* then turn).
C15_FailedSendSkipsOneRecipient ==
    [][ \A r \in DOMAIN rooms :
          (/\ lastReq'.type \in {"roll", "move"}
           /\ conns[lastReq'.conn].currentRoom = r
           /\ sent' # <<>>)
          => /\ \A i \in 1..Len(sent') : DeliveredTo(sent'[i]) = Reachable(rooms[r])
             /\ lastReq'.type = "roll"
                  => /\ sent'[1].data.type = "roll_result"
                     /\ rooms'[r].currentRoll = sent'[1].data.roll
                     /\ (sent'[1].data.moves = {} \/ sixRun'[r] = 3)
                          => /\ Len(sent') = 2
                             /\ sent'[2].data.type = "turn"
                             /\ sent'[2].data.playerId = TurnPlayer(rooms'[r]).id
                             /\ rooms'[r].turnIndex = NextUnfinishedSeat(rooms[r])
             /\ lastReq'.type = "move"
                  => /\ sent'[1].data.type = "state_update"
                     /\ rooms'[r].players[SeatOfId(rooms[r], sent'[1].data.playerId)].positions
                          = sent'[1].data.positions
                     /\ rooms'[r].currentRoll = 0
                     /\ sent'[Len(sent')].data.type = "turn"
                     /\ sent'[Len(sent')].data.playerId = TurnPlayer(rooms'[r]).id
      ]_vars

\* A move was broadcast in a room of three whose second player could not be
\* sent to: the first and the third got the state update and the turn
C15_Witness ==
    /\ lastReq.type = "move"
    /\ Len(sent) >= 2
    /\ "A" \in DOMAIN rooms
    /\ Len(rooms["A"].players) = 3
    /\ conns[rooms["A"].players[2].ws].status = "broken"
    /\ sent[1].data.type = "state_update"
    /\ DeliveredTo(sent[1]) = {rooms["A"].players[1].ws, rooms["A"].players[3].ws}
    /\ sent[Len(sent)].data.type = "turn"
    /\ DeliveredTo(sent[Len(sent)]) = {rooms["A"].players[1].ws, rooms["A"].players[3].ws}

\* C16: a token at 57 stays at 57 for as long as its player is in the room,
\* through every roll, move, capture by another player and departure; and a
\* roll of 1..6 never lists a token at 57 among the legal moves.
C16_FinishedTokenStays ==
    [][ \A r \in DOMAIN rooms :
          /\ r \in DOMAIN rooms'
               => \A i \in 1..Len(rooms[r].players) : \A j \in 1..Len(rooms'[r].players) :
                    rooms[r].players[i].id = rooms'[r].players[j].id
                      => \A t \in Tokens :
                           rooms[r].players[i].positions[t] = 57
                             => rooms'[r].players[j].positions[t] = 57
          /\ (lastReq'.type = "roll" /\ sent' # <<>> /\ conns[lastReq'.conn].currentRoom = r)
               => /\ sent'[1].data.roll \in 1..6
                  /\ \A t \in sent'[1].data.moves :
                       rooms[r].players[SeatOfId(rooms[r], sent'[1].data.playerId)].positions[t] # 57
      ]_vars

\* A player with finished tokens moved another token on a roll of 1..6, and
\* the finished tokens are where they were
C16_Witness ==
    /\ lastReq.type = "move"
    /\ sent # <<>>
    /\ sent[1].data.type = "state_update"
    /\ sent[1].data.move.roll \in 1..6
    /\ sent[1].data.positions[sent[1].data.move.tokenIndex] # 57
    /\ \E t \in Tokens : sent[1].data.positions[t] = 57

\* Every player of the rooms rs has one of the four colors, and no two
\* players of a room have the same color
ColorsValidAndUnique(rs) ==
    \A r \in DOMAIN rs :
      \A i \in 1..Len(rs[r].players) :
        /\ rs[r].players[i].color \in {"red", "green", "yellow", "blue"}
        /\ \A j \in 1..Len(rs[r].players) :
             i # j => rs[r].players[i].color # rs[r].players[j].color

\* C17: every player of every room has one of the colors red, green,
\* yellow, blue and no two players of a room have the same color: a join,
\* whatever color it asks for, by a connection that has joined nothing yet
\* leaves this so, and so does every other request.
C17_ColorsValidAndUnique ==
    [][ (ColorsValidAndUnique(rooms)
           /\ (lastReq'.type = "join" => conns[lastReq'.conn].currentRoom = NoRoom))
        => ColorsValidAndUnique(rooms') ]_vars

\* C18: when the turn holder's roll has been accepted and has left legal
\* moves (the turn did not pass), a further roll request from that player,
\* made before the move, is not accepted: it changes neither currentRoll
\* nor consecutiveSixes nor anything else of the room.
C18_NoSecondRollBeforeMove ==
    [][ \A c \in DOMAIN conns :
          (/\ lastReq = [type |-> "roll", conn |-> c]
           /\ Len(sent) = 1
           /\ sent[1].data.type = "roll_result"
           /\ sent[1].data.moves # {}
           /\ lastReq' = [type |-> "roll", conn |-> c])
          => rooms' = rooms
      ]_vars

\* C19: whenever the player at turnIndex of a started room changes (the turn
\* passes after a roll that leaves no legal move, after a third six, after
\* a move, or a departure puts another player at turnIndex), currentRoll
\* is none afterwards: no player holds the turn with a die value drawn for
\* another player.
C19_NoRollCarriedToNextHolder ==
    [][ \A r \in DOMAIN rooms :
          (/\ r \in DOMAIN rooms'
           /\ rooms[r].gameStarted
           /\ TurnPlayer(rooms'[r]).id # TurnPlayer(rooms[r]).id)
          => rooms'[r].currentRoll = 0
      ]_vars

\* C20: a player whose four tokens are at 57 is skipped: in a started room
\* that awaits a roll and in which some player still has an unfinished
\* token, players[turnIndex] is not a fully finished player; and a roll or
\* a move that changes turnIndex moves it to the first player after it, in
\* cyclic seating order, who has a token not at 57.
C20_FinishedPlayerSkipped ==
    [][ \A r \in DOMAIN rooms :
          (r \in DOMAIN rooms' /\ rooms'[r].gameStarted /\ lastReq'.type \in {"roll", "move"})
          => /\ (rooms'[r].currentRoll = 0 /\ SomeUnfinished(rooms'[r]))
                  => finishedCount(TurnPlayer(rooms'[r])) < 4
             /\ rooms'[r].turnIndex # rooms[r].turnIndex
                  => rooms'[r].turnIndex
                       = NextUnfinishedSeat([rooms'[r] EXCEPT !.turnIndex = rooms[r].turnIndex])
      ]_vars

\* C21: consecutiveSixes counts the 6s the player at turnIndex has rolled in
\* a row in the present turn: it is 0 whenever another player has just got
\* the turn of a started room (after a move, after a roll without legal
\* moves, after a third six, after a departure), and a roll of 6 that
\* leaves legal moves passes the turn only when it is the roller's own
\* third 6 in a row.
C21_SixStreakBelongsToTurnHolder ==
    [][ \A r \in DOMAIN rooms :
          (r \in DOMAIN rooms' /\ rooms[r].gameStarted)
          => /\ TurnPlayer(rooms'[r]).id # TurnPlayer(rooms[r]).id
                  => rooms'[r].consecutiveSixes = 0
             /\ (/\ lastReq'.type = "roll"
                 /\ Len(sent') = 2
                 /\ sent'[1].data.roll = 6
                 /\ sent'[1].data.moves # {})
                  => sixRun[r] = 2
      ]_vars

\* C22: in a started room every change of the player at turnIndex, by a
\* roll, a move or a disconnect, is announced in the same step: the last
\* event the handler broadcasts is a turn event that names the new player
\* at turnIndex, so the holder the clients were last told is the server's.
C22_TurnChangeAnnounced ==
    [][ \A r \in DOMAIN rooms :
          (/\ r \in DOMAIN rooms'
           /\ rooms[r].gameStarted
           /\ TurnPlayer(rooms'[r]).id # TurnPlayer(rooms[r]).id)
          => /\ sent' # <<>>
             /\ sent'[Len(sent')].data.type = "turn"
             /\ sent'[Len(sent')].data.playerId = TurnPlayer(rooms'[r]).id
      ]_vars

\* C23: while a room has not started, a roll or a move request of any of
\* its players, the first joiner included, changes nothing and sends
\* nothing; so when start succeeds, every token is at home and game_started
\* reports -1 for every position.
C23_NoTurnsBeforeStart ==
    [][ \A r \in DOMAIN rooms :
          /\ (/\ ~rooms[r].gameStarted
              /\ lastReq'.type \in {"roll", "move"}
              /\ conns[lastReq'.conn].currentRoom = r)
               => /\ rooms' = rooms
                  /\ sent' = <<>>
          /\ (/\ lastReq'.type = "start"
              /\ sent' # <<>>
              /\ sent'[1].data.type = "game_started"
              /\ conns[lastReq'.conn].currentRoom = r)
               => /\ \A i \in 1..Len(rooms'[r].players) :
                       rooms'[r].players[i].positions = HomePositions
                  /\ \A i \in 1..Len(sent'[1].data.state) :
                       sent'[1].data.state[i].positions = HomePositions
      ]_vars

\* C24: a connection has at most one player, in at most one room: a join
\* message on a connection that has already joined adds no player to any
\* room, so the players of every roster are on distinct connections, and
\* none of them is on a connection that has closed.
C24_OnePlayerPerConnection ==
    [][ /\ (lastReq'.type = "join" /\ conns[lastReq'.conn].currentRoom # NoRoom)
             => \A r \in DOMAIN rooms' :
                  /\ r \in DOMAIN rooms
                  /\ rooms'[r].players = rooms[r].players
        /\ \A r \in DOMAIN rooms' :
             \A i \in 1..Len(rooms'[r].players) :
               /\ conns'[rooms'[r].players[i].ws].status # "closed"
               /\ \A j \in 1..Len(rooms'[r].players) :
                    i # j => rooms'[r].players[i].ws # rooms'[r].players[j].ws
      ]_vars

\* C25: in a room whose players all have one of the four colors, no two
\* tokens of different players stand on the same main-track cell (the same
\* (start + pos) mod 52, both positions in 0..51) unless that cell is safe.
C25_NoSharedUnsafeCell ==
    \A r \in DOMAIN rooms :
      (\A i \in 1..Len(rooms[r].players) :
          rooms[r].players[i].color \in {"red", "green", "yellow", "blue"})
      => \A i, j \in 1..Len(rooms[r].players) : \A k, l \in Tokens :
           (/\ i # j
            /\ rooms[r].players[i].positions[k] \in 0..51
            /\ rooms[r].players[j].positions[l] \in 0..51
            /\ GlobalCell(rooms[r].players[i].color, rooms[r].players[i].positions[k])
                 = GlobalCell(rooms[r].players[j].color, rooms[r].players[j].positions[l]))
           => GlobalCell(rooms[r].players[i].color, rooms[r].players[i].positions[k]) \in SafeCells

\* A token has just landed on a cell that is not safe and that an opponent
\* stood on: it is now the only player's token there
C25_Witness ==
    /\ lastReq.type = "move"
    /\ sent # <<>>
    /\ sent[1].data.type = "state_update"
    /\ sent[1].data.captured = TRUE
    /\ LET room == rooms["A"]
           m == SeatOfId(room, sent[1].data.playerId)
           to == room.players[m].positions[sent[1].data.move.tokenIndex]
       IN  /\ to \in 0..51
           /\ GlobalCell(room.players[m].color, to) \notin SafeCells
           /\ \A i \in 1..Len(room.players) : \A l \in Tokens :
                (i # m /\ room.players[i].positions[l] \in 0..51)
                => GlobalCell(room.players[i].color, room.players[i].positions[l])
                     # GlobalCell(room.players[m].color, to)

====
